---- MODULE Spec2Model ----
(***************************************************************************)
(* Emotion_Detection: the request handlers of src/app.py, src/Other/app.py *)
(* and src/Other/app1.py as one state machine.                             *)
(*                                                                         *)
(* Each in-flight HTTP request is a thread of the (threaded) Flask server; *)
(* a step of the model is one call of a handler into the outside world     *)
(* (camera, file system, analyzer) together with the Python code up to the *)
(* next such call.  The requests share the working directory (fs), the     *)
(* wall clock (now) and the camera device 0.                               *)
(*                                                                         *)
(* External calls are drawn from the outcomes the library can produce:     *)
(*   cv2.VideoCapture.read   (True, frame) | (False, None) | raises        *)
(*   FileStorage.save        written | raises, file left | raises, no file *)
(*   cv2.imread              frame | None | raises                         *)
(*   cv2.imwrite             written (src/Other: or raises)                *)
(*   DeepFace.analyze        result | raises (always when file is missing) *)
(***************************************************************************)
EXTENDS Integers, Sequences, FiniteSets, TLC

\* ------------------------------------------------------------ bounds
\* Number of requests of one run (all may be in flight together).
NReq == 2
\* Last whole second the clock reaches; int(time.time()) ranges over 1..MaxTime.
MaxTime == 2

\* ------------------------------------------------- program constants
max_attempts == 3
SadThreshold == 30
AngryThreshold == 30
\* range(10) of the camera enumeration
NumIndices == 10
\* frame = None
None == 0

Reqs == 1..NReq

\* The five request handlers of the repository.
CaptureEmotion == "app.capture_emotion"
OtherCapture == "Other/app.capture_emotion"
Other1Capture == "Other/app1.capture_emotion"
TestCapture == "app.test_capture"
CheckCamera == "app.check_camera"

OtherHandlers == {OtherCapture, Other1Capture}
CaptureHandlers == {CaptureEmotion} \cup OtherHandlers
Diagnostics == {TestCapture, CheckCamera}
Handlers == CaptureHandlers \cup Diagnostics

\* methods=[...] of each route
Methods(h) == IF h = CaptureEmotion THEN {"GET", "POST"} ELSE {"GET"}

\* Scores and labels the analyzer may report (around both thresholds).
Scores == {10, 30, 31}
Labels == {"happy", "sad", "angry"}
Analyses == [dominant_emotion : Labels, emotion : [sad : Scores, angry : Scores]]
\* The one result the analyzer is given in runs with concurrent requests.
CannedAnalyses ==
  {[dominant_emotion |-> "happy", emotion |-> [sad |-> 31, angry |-> 31]]}
NoAnalysis == [dominant_emotion |-> "", emotion |-> [sad |-> 0, angry |-> 0]]

\* Messages of exceptions.
AnalyzerMessages == {"Face could not be detected"}
MissingFileMessage == "Confirm that img_path exists"

\* ------------------------------------------------------- temp files
\* f"uploaded_image_{int(time.time())}.jpg", f"captured_image_{...}.jpg" and
\* the fixed "captured_image.jpg": a name is its prefix and its suffix.
UploadedPath(t) == <<"uploaded_image_", t>>
CapturedPath(t) == <<"captured_image_", t>>
FixedPath == <<"captured_image", 0>>
NoPath == <<"", 0>>

\* os.path.exists
Exists(files, p) == p \in DOMAIN files
\* a write to p (save, imwrite): creates or overwrites
WriteFile(files, p, c) == [q \in DOMAIN files \cup {p} |-> IF q = p THEN c ELSE files[q]]
\* os.remove
RemoveFile(files, p) == [q \in DOMAIN files \ {p} |-> files[q]]

\* ------------------------------------------------------- responses
NoResponse == [status |-> 0, body |-> [none |-> TRUE]]
ErrorBody(text, detail) == [error |-> [text |-> text, detail |-> detail]]
ErrorResponse(status, text, detail) == [status |-> status, body |-> ErrorBody(text, detail)]

\* A faulty variant: the success payload without the scores.
SuccessBodyPartial(dom, emotions, img) ==
  [dominant_emotion |-> dom, captured_image |-> img]

\* jsonify({"dominant_emotion", "emotions", "captured_image"}) of src/app.py
SuccessBody(dom, emotions, img) ==
  [dominant_emotion |-> dom, emotions |-> emotions, captured_image |-> img]

\* jsonify({"dominant_emotion", "emotion_scores", "captured_image"}) of src/Other
OtherSuccessBody(dom, emotions, img) ==
  [dominant_emotion |-> dom, emotion_scores |-> emotions, captured_image |-> img]

\* A faulty variant: the two tests in the other order.
ApplyThresholdsAngryFirst(emotions, dominant) ==
  IF emotions.angry > AngryThreshold THEN "angry"
  ELSE IF emotions.sad > SadThreshold THEN "sad"
  ELSE dominant

\* A faulty variant: 'angry' overrides from 30 on instead of above 30.
ApplyThresholdsInclusive(emotions, dominant) ==
  IF emotions.sad > SadThreshold THEN "sad"
  ELSE IF emotions.angry >= AngryThreshold THEN "angry"
  ELSE dominant

\* The label override of src/app.py: sad first, then angry, else the analyzer's.
ApplyThresholds(emotions, dominant) ==
  IF emotions.sad > SadThreshold THEN "sad"
  ELSE IF emotions.angry > AngryThreshold THEN "angry"
  ELSE dominant

\* src/Other: the analyzer's label is returned as it is.
OtherLabel(emotions, dominant) == dominant

VARIABLES
  now,          \* int(time.time()), in whole seconds
  platformName, \* platform.system()
  camWorking,   \* device 0 is present and opens when no one else holds it
  arrivals,     \* how many requests arrive in this run
  analyzer,     \* the results DeepFace.analyze may return in this run
  fs,           \* working directory: existing temp path -> request whose image it holds
  req           \* per request: its handler's local state (fields below)

vars == <<now, platformName, camWorking, arrivals, analyzer, fs, req>>

\* What no request changes.
world == <<platformName, camWorking, arrivals, analyzer>>

\* A camera handle: the device index, and the pass of get_system_info that
\* opened it (1 everywhere else).
Handle(dev, pass) == <<dev, pass>>
Holds(r, dev) == \E h \in req[r].webcam : h[1] = dev

\* The state of a request before it arrives.
\*   handler        the handler serving it
\*   method, files  request.method, 'image' in request.files
\*   pc             position in the handler
\*   image_path, frame, webcam (handles held open), analysis (analysis[0])
\*   readLog        results of webcam.read() so far (attempt = Len(readLog))
\*   i, pass        enumeration index, and which call of get_system_info runs
\*   pending        response a return statement computed, finally still to run
\*   resp           the response returned
\*   openResult, wrote, analyzerCalled, analyzedImage, analyzerError: history
\*                  of the request: VideoCapture(0) "opened"/"failed", temp file
\*                  created, DeepFace.analyze entered, image it found at
\*                  img_path, message of the exception it raised
Idle ==
  [handler |-> "", method |-> "GET", files |-> FALSE, pc |-> "idle",
   image_path |-> NoPath, frame |-> None, webcam |-> {}, readLog |-> << >>,
   i |-> 0, pass |-> 1, analysis |-> NoAnalysis, pending |-> NoResponse,
   resp |-> NoResponse, openResult |-> "", wrote |-> FALSE,
   analyzerCalled |-> FALSE, analyzedImage |-> {}, analyzerError |-> ""]

Init ==
  /\ now = 1
  /\ platformName \in {"Windows", "Linux"}
  /\ camWorking \in BOOLEAN
  \* either concurrent requests and an analyzer with one canned result, or one
  \* request and an analyzer that may return any result
  /\ \/ arrivals = NReq /\ analyzer = CannedAnalyses
     \/ arrivals = 1 /\ analyzer = Analyses
  /\ fs = [p \in {} |-> 0]
  /\ req = [r \in Reqs |-> Idle]

\* Request r moves to local state s; the other requests stay.
Step(r, s) == req' = [req EXCEPT ![r] = s]

\* return <response> (no finally pending)
Return(s, response) == [s EXCEPT !.pc = "done", !.resp = response]

\* An exception leaves the handler: Flask answers 500 without a JSON body.
UnhandledResponse == [status |-> 500, body |-> [traceback |-> TRUE]]
Escape(s) == [s EXCEPT !.pc = "crashed", !.resp = UnhandledResponse]

\* time.time() advances.
Tick ==
  /\ now < MaxTime
  /\ now' = now + 1
  /\ UNCHANGED <<world, fs, req>>

\* A request arrives at one of the routes (requests are numbered in order of
\* arrival).
Arrive(r) ==
  /\ req[r].pc = "idle" /\ r <= arrivals
  /\ \A o \in Reqs : o < r => req[o].pc # "idle"
  /\ \E h \in Handlers : \E m \in Methods(h) :
       \E f \in (IF h = CaptureEmotion THEN BOOLEAN ELSE {FALSE}) :
         Step(r, [req[r] EXCEPT !.handler = h, !.method = m, !.files = f,
                                !.pc = "start"])
  /\ UNCHANGED <<now, world, fs>>

\* cv2.VideoCapture(dev).isOpened(): device 0 opens when it works and is free;
\* while another handle holds it the driver decides.
OpenOutcomes(r, dev) ==
  IF dev # 0 THEN BOOLEAN
  ELSE IF ~camWorking THEN {FALSE}
  ELSE IF \E o \in Reqs \ {r} : Holds(o, 0) THEN BOOLEAN
  ELSE {TRUE}

\* webcam.read() on handle set w: (True, frame), (False, None) or an exception;
\* a handle that is not open yields (False, None).
ReadOutcomes(w) == IF w = {} THEN {"noframe"} ELSE {"frame", "noframe", "raised"}

\* ------------------------------------------- src/app.py capture_emotion
\* except Exception as e (the outermost handler): 500 "Unexpected error: ..."
OuterExcept(s, message) == Return(s, ErrorResponse(500, "Unexpected error", message))

\* A faulty variant: the upload is looked for on the wrong method.
UseUploadInverted(m, f) == m = "GET" /\ f

\* request.method == 'POST' and 'image' in request.files
UseUpload(m, f) == m = "POST" /\ f

\* Lines 138-140, 144: choose the source; the upload's path takes the clock.
CE_Dispatch(r) ==
  /\ req[r].handler = CaptureEmotion /\ req[r].pc = "start"
  /\ IF UseUpload(req[r].method, req[r].files)
       THEN Step(r, [req[r] EXCEPT !.image_path = UploadedPath(now), !.pc = "save"])
       ELSE Step(r, [req[r] EXCEPT !.pc = "open"])
  /\ UNCHANGED <<now, world, fs>>

\* Line 141: image_file.save(image_path).
CE_Save(r) ==
  /\ req[r].handler = CaptureEmotion /\ req[r].pc = "save"
  /\ \E out \in {"saved", "raised_file_left", "raised_no_file"} :
       /\ fs' = IF out = "raised_no_file" THEN fs
                ELSE WriteFile(fs, req[r].image_path, r)
       /\ Step(r, IF out = "saved"
                    THEN [req[r] EXCEPT !.wrote = TRUE, !.pc = "imread"]
                    ELSE OuterExcept([req[r] EXCEPT !.wrote = (out # "raised_no_file")],
                                     "save failed"))
  /\ UNCHANGED <<now, world>>

\* Line 142: frame = cv2.imread(image_path); None when the file is missing or
\* is no image.
CE_Imread(r) ==
  /\ req[r].handler = CaptureEmotion /\ req[r].pc = "imread"
  /\ \E out \in {"decoded", "undecodable", "raised"} :
       /\ out = "decoded" => Exists(fs, req[r].image_path)
       /\ Step(r, CASE out = "decoded" ->
                         [req[r] EXCEPT !.frame = fs[req[r].image_path], !.pc = "analyze"]
                    [] out = "undecodable" ->
                         [req[r] EXCEPT !.frame = None, !.pc = "analyze"]
                    [] OTHER -> OuterExcept(req[r], "imread failed"))
  /\ UNCHANGED <<now, world, fs>>

\* Lines 146-156: webcam = cv2.VideoCapture(0[, CAP_DSHOW]); not opened -> 500.
CE_Open(r) ==
  /\ req[r].handler = CaptureEmotion /\ req[r].pc = "open"
  /\ \E ok \in OpenOutcomes(r, 0) :
       Step(r, IF ok
                 THEN [req[r] EXCEPT !.openResult = "opened", !.webcam = {Handle(0, 1)},
                                     !.frame = None, !.pc = "read"]
                 ELSE Return([req[r] EXCEPT !.openResult = "failed"],
                             ErrorResponse(500, "Failed to open camera", "")))
  /\ UNCHANGED <<now, world, fs>>

\* A faulty variant: one read too many.
LoopExhaustedOffByOne(n) == n >= max_attempts + 1

\* for attempt in range(max_attempts): the loop ends after n reads.
LoopExhausted(n) == n >= max_attempts

\* Lines 157-162: one pass of the retry loop.
CE_Read(r) ==
  /\ req[r].handler = CaptureEmotion /\ req[r].pc = "read"
  /\ \E out \in ReadOutcomes(req[r].webcam) :
       Step(r, CASE out = "frame" ->
                      [req[r] EXCEPT !.readLog = Append(@, TRUE), !.frame = r,
                                     !.pc = "release"]
                 [] out = "noframe" ->
                      [req[r] EXCEPT !.readLog = Append(@, FALSE), !.frame = None,
                                     !.pc = IF LoopExhausted(Len(req[r].readLog) + 1)
                                              THEN "release" ELSE "read"]
                 [] OTHER -> OuterExcept(req[r], "read failed"))
  /\ UNCHANGED <<now, world, fs>>

\* Lines 164-170: webcam.release(); no frame -> 500; else name the temp file.
CE_Release(r) ==
  /\ req[r].handler = CaptureEmotion /\ req[r].pc = "release"
  /\ Step(r, IF req[r].frame = None
               THEN Return([req[r] EXCEPT !.webcam = {}],
                           ErrorResponse(500, "Failed to capture frame after multiple attempts", ""))
               ELSE [req[r] EXCEPT !.webcam = {}, !.image_path = CapturedPath(now),
                                   !.pc = "imwrite"])
  /\ UNCHANGED <<now, world, fs>>

\* Line 171: cv2.imwrite(image_path, frame).
CE_Imwrite(r) ==
  /\ req[r].handler = CaptureEmotion /\ req[r].pc = "imwrite"
  /\ fs' = WriteFile(fs, req[r].image_path, req[r].frame)
  /\ Step(r, [req[r] EXCEPT !.wrote = TRUE, !.pc = "analyze"])
  /\ UNCHANGED <<now, world>>

\* DeepFace.analyze(img_path=p): a result, or an exception with its message; a
\* missing file always raises.
AnalyzeOutcomes(files, p) ==
  IF Exists(files, p)
    THEN [raised : {FALSE}, message : {""}, analysis : analyzer]
         \cup [raised : {TRUE}, message : AnalyzerMessages, analysis : {NoAnalysis}]
    ELSE [raised : {TRUE}, message : {MissingFileMessage}, analysis : {NoAnalysis}]

\* Lines 173-203: the inner try up to its return, and its except.
CE_Analyze(r) ==
  /\ req[r].handler = CaptureEmotion /\ req[r].pc = "analyze"
  /\ \E out \in AnalyzeOutcomes(fs, req[r].image_path) :
       LET s == [req[r] EXCEPT
                   !.analyzerCalled = TRUE,
                   !.analyzedImage = IF Exists(fs, req[r].image_path)
                                       THEN {fs[req[r].image_path]} ELSE {},
                   !.pc = "finally"]
       IN Step(r, CASE out.raised ->
                         [s EXCEPT !.analyzerError = out.message, !.pending =
                            ErrorResponse(500, "Error during analysis", out.message)]
                    [] ~out.raised /\ req[r].frame = None ->
                         \* cv2.imencode('.jpg', None) raises inside the try
                         [s EXCEPT !.analysis = out.analysis, !.pending =
                            ErrorResponse(500, "Error during analysis", "imencode failed")]
                    [] OTHER ->
                         [s EXCEPT !.analysis = out.analysis, !.pending =
                            [status |-> 200,
                             body |-> SuccessBody(
                               ApplyThresholds(out.analysis.emotion,
                                               out.analysis.dominant_emotion),
                               out.analysis.emotion, req[r].frame)]])
  /\ UNCHANGED <<now, world, fs>>

\* Line 207, in the finally: if os.path.exists(image_path).
CE_FinallyExists(r) ==
  /\ req[r].handler = CaptureEmotion /\ req[r].pc = "finally"
  /\ Step(r, IF Exists(fs, req[r].image_path)
               THEN [req[r] EXCEPT !.pc = "remove"]
               ELSE Return(req[r], req[r].pending))
  /\ UNCHANGED <<now, world, fs>>

\* Line 208: os.remove(image_path); FileNotFoundError if the file went away
\* since the check, which the outermost except turns into a 500.
CE_FinallyRemove(r) ==
  /\ req[r].handler = CaptureEmotion /\ req[r].pc = "remove"
  /\ IF Exists(fs, req[r].image_path)
       THEN /\ fs' = RemoveFile(fs, req[r].image_path)
            /\ Step(r, Return(req[r], req[r].pending))
       ELSE /\ fs' = fs
            /\ Step(r, OuterExcept(req[r], "No such file or directory"))
  /\ UNCHANGED <<now, world>>

CaptureEmotionStep(r) ==
  \/ CE_Dispatch(r)
  \/ CE_Save(r)
  \/ CE_Imread(r)
  \/ CE_Open(r)
  \/ CE_Read(r)
  \/ CE_Release(r)
  \/ CE_Imwrite(r)
  \/ CE_Analyze(r)
  \/ CE_FinallyExists(r)
  \/ CE_FinallyRemove(r)

\* ------------------- src/Other/app.py, src/Other/app1.py capture_emotion
\* Lines 16 (17): webcam = cv2.VideoCapture(0); isOpened() is not looked at.
O_Open(r) ==
  /\ req[r].handler \in OtherHandlers /\ req[r].pc = "start"
  /\ \E ok \in OpenOutcomes(r, 0) :
       Step(r, [req[r] EXCEPT !.openResult = IF ok THEN "opened" ELSE "failed",
                              !.webcam = IF ok THEN {Handle(0, 1)} ELSE {},
                              !.pc = "o_read"])
  /\ UNCHANGED <<now, world, fs>>

\* Lines 17-20 (20-23): ret, frame = webcam.read(); not ret -> release, 500.
O_Read(r) ==
  /\ req[r].handler \in OtherHandlers /\ req[r].pc = "o_read"
  /\ \E out \in ReadOutcomes(req[r].webcam) :
       Step(r, CASE out = "frame" ->
                      [req[r] EXCEPT !.readLog = Append(@, TRUE), !.frame = r,
                                     !.pc = IF req[r].handler = Other1Capture
                                              THEN "o_detect" ELSE "o_imwrite"]
                 [] out = "noframe" ->
                      Return([req[r] EXCEPT !.readLog = Append(@, FALSE), !.webcam = {}],
                             ErrorResponse(500, "Failed to capture image", ""))
                 [] OTHER -> Escape(req[r]))
  /\ UNCHANGED <<now, world, fs>>

\* app1.py lines 26-46: grayscale, Haar cascade, crop, gamma; no face ->
\* release, 400; none of it is inside a try.
O1_Detect(r) ==
  /\ req[r].handler = Other1Capture /\ req[r].pc = "o_detect"
  /\ \E out \in {"face", "noface", "raised"} :
       Step(r, CASE out = "face" -> [req[r] EXCEPT !.pc = "o_imwrite"]
                 [] out = "noface" ->
                      Return([req[r] EXCEPT !.webcam = {}],
                             ErrorResponse(400, "No face detected", ""))
                 [] OTHER -> Escape(req[r]))
  /\ UNCHANGED <<now, world, fs>>

\* Lines 23-24 (49-50): image_path = "captured_image.jpg"; cv2.imwrite.
O_Imwrite(r) ==
  /\ req[r].handler \in OtherHandlers /\ req[r].pc = "o_imwrite"
  /\ \E out \in {"written", "raised"} :
       /\ fs' = IF out = "written" THEN WriteFile(fs, FixedPath, req[r].frame) ELSE fs
       /\ Step(r, IF out = "raised"
                    THEN Escape([req[r] EXCEPT !.image_path = FixedPath])
                    ELSE [req[r] EXCEPT !.image_path = FixedPath,
                                        !.wrote = (out = "written"),
                                        !.pc = "o_analyze"])
  /\ UNCHANGED <<now, world>>

\* Lines 27-38 (53-64): the try around the analyzer; its except releases the
\* camera and returns 500.
O_Analyze(r) ==
  /\ req[r].handler \in OtherHandlers /\ req[r].pc = "o_analyze"
  /\ \E out \in AnalyzeOutcomes(fs, req[r].image_path) :
       LET s == [req[r] EXCEPT
                   !.analyzerCalled = TRUE,
                   !.analyzedImage = IF Exists(fs, req[r].image_path)
                                       THEN {fs[req[r].image_path]} ELSE {}]
       IN Step(r, IF out.raised
                    THEN Return([s EXCEPT !.webcam = {}, !.analyzerError = out.message],
                                ErrorResponse(500, "Error during analysis", out.message))
                    ELSE [s EXCEPT !.analysis = out.analysis, !.pc = "o_exists"])
  /\ UNCHANGED <<now, world, fs>>

\* Lines 43-50 (69-76): webcam.release(); return the emotion data.
OtherReturn(s) ==
  Return([s EXCEPT !.webcam = {}],
         [status |-> 200,
          body |-> OtherSuccessBody(
            OtherLabel(s.analysis.emotion, s.analysis.dominant_emotion),
            s.analysis.emotion, s.frame)])

\* Line 41 (67): if os.path.exists(image_path).
O_Exists(r) ==
  /\ req[r].handler \in OtherHandlers /\ req[r].pc = "o_exists"
  /\ Step(r, IF Exists(fs, req[r].image_path)
               THEN [req[r] EXCEPT !.pc = "o_remove"]
               ELSE OtherReturn(req[r]))
  /\ UNCHANGED <<now, world, fs>>

\* Line 42 (68): os.remove(image_path), outside any try.
O_Remove(r) ==
  /\ req[r].handler \in OtherHandlers /\ req[r].pc = "o_remove"
  /\ IF Exists(fs, req[r].image_path)
       THEN /\ fs' = RemoveFile(fs, req[r].image_path)
            /\ Step(r, OtherReturn(req[r]))
       ELSE /\ fs' = fs
            /\ Step(r, Escape(req[r]))
  /\ UNCHANGED <<now, world>>

OtherCaptureStep(r) ==
  \/ O_Open(r)
  \/ O_Read(r)
  \/ O1_Detect(r)
  \/ O_Imwrite(r)
  \/ O_Analyze(r)
  \/ O_Exists(r)
  \/ O_Remove(r)

\* ------------------------------------------------ src/app.py test_capture
\* Lines 109-115: open device 0; not opened -> 500.
T_Open(r) ==
  /\ req[r].handler = TestCapture /\ req[r].pc = "start"
  /\ \E ok \in OpenOutcomes(r, 0) :
       Step(r, IF ok
                 THEN [req[r] EXCEPT !.openResult = "opened", !.webcam = {Handle(0, 1)},
                                     !.pc = "t_read"]
                 ELSE Return([req[r] EXCEPT !.openResult = "failed"],
                             ErrorResponse(500, "Failed to open camera", "")))
  /\ UNCHANGED <<now, world, fs>>

\* A faulty variant: the test frame is written to captured_image.jpg.
T_ReadKeepsFrame(r) ==
  /\ req[r].handler = TestCapture /\ req[r].pc = "t_read"
  /\ fs' = WriteFile(fs, FixedPath, r)
  /\ Step(r, Return([req[r] EXCEPT !.readLog = Append(@, TRUE), !.webcam = {}],
                    [status |-> 200,
                     body |-> [success |-> TRUE, frame_shape |-> "shape",
                               frame_type |-> "dtype"]]))
  /\ UNCHANGED <<now, world>>

\* Lines 117-131: read one frame, release, report; the except returns 500.
T_Read(r) ==
  /\ req[r].handler = TestCapture /\ req[r].pc = "t_read"
  /\ \E out \in ReadOutcomes(req[r].webcam) :
       Step(r, CASE out = "frame" ->
                      Return([req[r] EXCEPT !.readLog = Append(@, TRUE), !.webcam = {}],
                             [status |-> 200,
                              body |-> [success |-> TRUE, frame_shape |-> "shape",
                                        frame_type |-> "dtype"]])
                 [] out = "noframe" ->
                      Return([req[r] EXCEPT !.readLog = Append(@, FALSE), !.webcam = {}],
                             ErrorResponse(500, "Failed to capture frame", ""))
                 [] OTHER -> Return(req[r], ErrorResponse(500, "read failed", "")))
  /\ UNCHANGED <<now, world, fs>>

TestCaptureStep(r) ==
  \/ T_Open(r)
  \/ T_Read(r)

\* ------------------------- src/app.py check_camera and get_system_info
\* os.path.exists(f"/dev/video{i}"): a working device 0 has its node.
DeviceExists(dev) == IF dev = 0 /\ camWorking THEN {TRUE} ELSE BOOLEAN

\* for i in range(10): the next index, and after the last one the test of the
\* default camera (line 72).
NextIndex(s) ==
  IF s.i + 1 >= NumIndices
    THEN [s EXCEPT !.i = 0, !.pc = "default_open"]
    ELSE [s EXCEPT !.i = @ + 1, !.pc = "enum_open"]

\* An exception leaves get_system_info: the except of check_camera (line 98)
\* calls get_system_info again, outside any try.
SystemInfoRaised(s) ==
  IF s.pass = 1 THEN [s EXCEPT !.pass = 2, !.i = 0, !.pc = "enum_open"]
  ELSE Escape(s)

\* Lines 97 and 100-103: the report, or the error with the second report.
\* (The per-device entries of info['cameras'] are not kept.)
CheckReturn(s, opened, read, error) ==
  LET info == [platform |-> platformName, cameras |-> "enumerated",
               opencv_camera_open |-> opened, opencv_frame_read |-> read,
               opencv_error |-> error]
  IN IF s.pass = 1
       THEN Return(s, [status |-> 200, body |-> info])
       ELSE Return(s, [status |-> 200,
                       body |-> [error |-> [text |-> "read failed", detail |-> ""],
                                 partial_info |-> info]])

\* Lines 25-26 (Windows: VideoCapture(i, CAP_DSHOW), read only if opened) and
\* 41-43 (Linux: only existing /dev/video{i}, opened without a look at isOpened).
C_EnumOpen(r) ==
  /\ req[r].handler = CheckCamera /\ req[r].pc \in {"start", "enum_open"}
  /\ req[r].i = 0
  /\ LET h == Handle(req[r].i, req[r].pass)
     IN IF platformName = "Windows"
          THEN \E ok \in OpenOutcomes(r, req[r].i) :
                 Step(r, IF ok
                           THEN [req[r] EXCEPT !.webcam = @ \cup {h}, !.pc = "enum_read"]
                           ELSE NextIndex(req[r]))
          ELSE \E there \in DeviceExists(req[r].i) :
                 IF there
                   THEN \E ok \in OpenOutcomes(r, req[r].i) :
                          Step(r, [req[r] EXCEPT
                                     !.webcam = IF ok THEN @ \cup {h} ELSE @,
                                     !.pc = "enum_read"])
                   ELSE Step(r, NextIndex(req[r]))
  /\ UNCHANGED <<now, world, fs>>

\* Lines 27-33 and 44-52: read one frame, append the entry, cap.release().
C_EnumRead(r) ==
  /\ req[r].handler = CheckCamera /\ req[r].pc = "enum_read"
  /\ LET h == Handle(req[r].i, req[r].pass)
     IN \E out \in ReadOutcomes(req[r].webcam \cap {h}) :
          Step(r, IF out = "raised"
                    THEN SystemInfoRaised(req[r])
                    ELSE NextIndex([req[r] EXCEPT !.webcam = @ \ {h}]))
  /\ UNCHANGED <<now, world, fs>>

\* Lines 73-80, 84-86: the default camera; not opened -> release, report.
C_DefaultOpen(r) ==
  /\ req[r].handler = CheckCamera /\ req[r].pc = "default_open"
  /\ \E ok \in OpenOutcomes(r, 0) :
       Step(r, IF ok
                 THEN [req[r] EXCEPT !.openResult = "opened",
                                     !.webcam = @ \cup {Handle(0, req[r].pass)},
                                     !.pc = "default_read"]
                 ELSE CheckReturn([req[r] EXCEPT !.openResult = "failed"],
                                  FALSE, FALSE, ""))
  /\ UNCHANGED <<now, world, fs>>

\* Lines 81-88: read, release; an exception is recorded, the handle is kept.
C_DefaultRead(r) ==
  /\ req[r].handler = CheckCamera /\ req[r].pc = "default_read"
  /\ LET h == Handle(0, req[r].pass)
     IN \E out \in ReadOutcomes(req[r].webcam \cap {h}) :
          Step(r, IF out = "raised"
                    THEN CheckReturn(req[r], TRUE, FALSE, "read failed")
                    ELSE CheckReturn([req[r] EXCEPT !.webcam = @ \ {h}],
                                     TRUE, out = "frame", ""))
  /\ UNCHANGED <<now, world, fs>>

\* The same lines for an index i > 0, a device no other handler opens: open,
\* read and release in one step (handles are tracked for device 0 only).
C_EnumOther(r) ==
  /\ req[r].handler = CheckCamera /\ req[r].pc = "enum_open"
  /\ req[r].i > 0
  /\ \E out \in {"listed", "raised"} :
       Step(r, IF out = "raised"
                 THEN SystemInfoRaised(req[r])
                 ELSE NextIndex(req[r]))
  /\ UNCHANGED <<now, world, fs>>

CheckCameraStep(r) ==
  \/ C_EnumOpen(r)
  \/ C_EnumOther(r)
  \/ C_EnumRead(r)
  \/ C_DefaultOpen(r)
  \/ C_DefaultRead(r)

Next ==
  \/ Tick
  \/ \E r \in Reqs : Arrive(r)
  \/ \E r \in Reqs : CaptureEmotionStep(r)
  \/ \E r \in Reqs : OtherCaptureStep(r)
  \/ \E r \in Reqs : TestCaptureStep(r)
  \/ \E r \in Reqs : CheckCameraStep(r)

Spec == Init /\ [][Next]_vars

\* =================================================================
\* Properties
\* =================================================================
Returned(r) == req[r].pc \in {"done", "crashed"}
\* The step in which request r returns its response.
Returns(r) == ~Returned(r) /\ Returned(r)'
IsCaptureEmotion(r) == req[r].handler = CaptureEmotion
IsUpload(r) == req[r].method = "POST" /\ req[r].files
AllFailed(log) == \A k \in 1..Len(log) : ~log[k]

\* 200 with dominant_emotion, emotions and the echoed captured_image
FullSuccess(response) ==
  /\ response.status = 200
  /\ DOMAIN response.body = {"dominant_emotion", "emotions", "captured_image"}
\* 4xx/5xx with an error field and nothing else
ErrorOnly(response) ==
  /\ response.status \in 400..599
  /\ DOMAIN response.body = {"error"}
\* the 500 of a camera that gave no frame
AcquisitionError(response) ==
  /\ ErrorOnly(response)
  /\ response.status = 500
  /\ response.body.error.text \in
       {"Failed to open camera", "Failed to capture frame after multiple attempts"}

\* C1: in capture_emotion of src/app.py, a temp file the request created no
\* longer exists when the handler returns, on every exit path.
C1_TempFileGoneOnReturn ==
  [][\A r \in Reqs :
       (IsCaptureEmotion(r) /\ Returns(r) /\ req'[r].wrote)
         => ~Exists(fs', req'[r].image_path)]_vars

\* C2: in every capture-emotion handler, when the analyzer raises, the handler
\* returns 500 carrying the analyzer's message and the request's temp file is
\* deleted by the time it returns.
C2_AnalyzerFailureCleansUp ==
  [][\A r \in Reqs :
       (req[r].handler \in CaptureHandlers /\ Returns(r) /\ req'[r].analyzerError # "")
         => /\ req'[r].resp =
                 ErrorResponse(500, "Error during analysis", req'[r].analyzerError)
            /\ ~Exists(fs', req'[r].image_path)]_vars

\* A capture-emotion request that has named its temp file and not yet returned.
InFlightWithPath(r) ==
  /\ req[r].handler \in CaptureHandlers
  /\ req[r].pc \notin {"idle", "done", "crashed"}
  /\ req[r].image_path # NoPath

\* C3: two capture-emotion requests in flight at the same time never have the
\* same temp file path.
C3_PathsNeverShared ==
  \A r1 \in Reqs : \A r2 \in Reqs \ {r1} :
    (InFlightWithPath(r1) /\ InFlightWithPath(r2))
      => req[r1].image_path # req[r2].image_path

\* C4 as stated, over every capture-emotion handler of the repository: a
\* successful response whose 'sad' score is above 30 is labelled 'sad'.
C4_SadOverridesEverywhere ==
  \A r \in Reqs :
    (req[r].handler \in CaptureHandlers /\ req[r].resp.status = 200
       /\ req[r].analysis.emotion.sad > SadThreshold)
      => req[r].resp.body.dominant_emotion = "sad"

\* C4, amended to capture_emotion of src/app.py: a successful response whose
\* 'sad' score is above 30 is labelled 'sad', whatever the analyzer's own
\* label and the 'angry' score.
C4_SadOverrides ==
  \A r \in Reqs :
    (IsCaptureEmotion(r) /\ req[r].resp.status = 200
       /\ req[r].analysis.emotion.sad > SadThreshold)
      => req[r].resp.body.dominant_emotion = "sad"

C4_Witness ==
  \E r \in Reqs :
    /\ IsCaptureEmotion(r) /\ req[r].resp.status = 200
    /\ req[r].analysis.emotion.sad > SadThreshold
    /\ req[r].analysis.emotion.angry > AngryThreshold
    /\ req[r].analysis.dominant_emotion = "happy"
    /\ req[r].resp.body.dominant_emotion = "sad"

\* C5: a successful response of capture_emotion of src/app.py whose 'sad'
\* score is at most 30 is labelled 'angry' if the 'angry' score is above 30,
\* and otherwise carries exactly the analyzer's own label.
C5_AngryElseAnalyzer ==
  \A r \in Reqs :
    (IsCaptureEmotion(r) /\ req[r].resp.status = 200
       /\ req[r].analysis.emotion.sad <= SadThreshold)
      => req[r].resp.body.dominant_emotion =
           IF req[r].analysis.emotion.angry > AngryThreshold
             THEN "angry" ELSE req[r].analysis.dominant_emotion

C5_Witness ==
  \E r \in Reqs :
    /\ IsCaptureEmotion(r) /\ req[r].resp.status = 200
    /\ req[r].analysis.emotion = [sad |-> 30, angry |-> 30]
    /\ req[r].analysis.dominant_emotion = "happy"
    /\ req[r].resp.body.dominant_emotion = "happy"

\* C6 as stated: a request of capture_emotion of src/app.py that carries an
\* uploaded image file never opens the camera, and the image handed to the
\* analyzer is its own upload.
C6_UploadNeverOpensCamera ==
  \A r \in Reqs :
    (IsCaptureEmotion(r) /\ req[r].files)
      => /\ req[r].openResult = ""
         /\ req[r].analyzedImage \subseteq {r}

\* C6, amended: a POST request of capture_emotion of src/app.py that carries an
\* uploaded file 'image' never opens the camera, and what the analyzer is handed
\* is an uploaded image saved under this request's path; the camera is opened
\* only for requests that are not POST or carry no such file.
C6_PostUploadNeverOpensCamera ==
  \A r \in Reqs :
    IsCaptureEmotion(r) =>
      /\ IsUpload(r) =>
           /\ req[r].openResult = "" /\ req[r].webcam = {} /\ req[r].readLog = << >>
           /\ \A c \in req[r].analyzedImage :
                /\ IsCaptureEmotion(c) /\ IsUpload(c)
                /\ req[c].image_path = req[r].image_path
           /\ req[r].image_path \in {NoPath} \cup {UploadedPath(t) : t \in 1..MaxTime}
      /\ (req[r].openResult # "" \/ req[r].webcam # {}) => ~IsUpload(r)

C6_Witness ==
  \E r \in Reqs :
    /\ IsCaptureEmotion(r) /\ IsUpload(r)
    /\ req[r].analyzedImage = {r}
    /\ req[r].pc = "done" /\ req[r].resp.status = 200
    /\ req[r].resp.body.captured_image = r

\* C7: on the camera path of capture_emotion of src/app.py there are at most 3
\* frame reads, none after a successful one; the handler returns the 500 of a
\* missing frame, with no temp file written and no analyzer call, exactly when
\* the device did not open or all 3 reads failed; and the analyzer is only
\* called with a frame from a successful read.
C7_CameraRetry ==
  \A r \in Reqs :
    (IsCaptureEmotion(r) /\ ~IsUpload(r)) =>
      LET log == req[r].readLog
          exhausted == Len(log) = max_attempts /\ AllFailed(log)
      IN /\ Len(log) <= max_attempts
         /\ \A k \in 1..(Len(log) - 1) : ~log[k]
         /\ req[r].pc = "read" => AllFailed(log)
         /\ log # << >> => req[r].openResult = "opened"
         /\ Returned(r) =>
              (AcquisitionError(req[r].resp) <=> (req[r].openResult = "failed" \/ exhausted))
         /\ (req[r].openResult = "failed" \/ exhausted) =>
              /\ ~req[r].wrote /\ ~req[r].analyzerCalled
              /\ req[r].image_path = NoPath
              /\ req[r].pc \in {"release", "done"}
         /\ (req[r].analyzerCalled \/ req[r].wrote) =>
              /\ log # << >> /\ log[Len(log)]
              /\ req[r].frame = r

C7_Witness ==
  \E r \in Reqs :
    /\ IsCaptureEmotion(r) /\ ~IsUpload(r)
    /\ req[r].readLog = <<FALSE, FALSE, TRUE>>
    /\ req[r].analyzerCalled /\ req[r].resp.status = 200

\* C8: capture_emotion of src/app.py never returns a partial result: a response
\* is a 200 with dominant_emotion, emotions and captured_image, or a 4xx/5xx
\* with an error field only; a camera that does not open gives a 500 with the
\* error field only; and no exception leaves the handler.
C8_NoPartialResults ==
  \A r \in Reqs :
    IsCaptureEmotion(r) =>
      /\ req[r].pc # "crashed"
      /\ req[r].pc = "done" => (FullSuccess(req[r].resp) \/ ErrorOnly(req[r].resp))
      /\ req[r].pc # "done" => req[r].resp = NoResponse
      /\ (req[r].pc = "done" /\ req[r].openResult = "failed") =>
           (req[r].resp.status = 500 /\ ErrorOnly(req[r].resp))

C8_Witness ==
  \E r \in Reqs :
    /\ IsCaptureEmotion(r) /\ ~req[r].files /\ req[r].pc = "done"
    /\ req[r].openResult = "failed"
    /\ req[r].resp = ErrorResponse(500, "Failed to open camera", "")

\* C9: every handler that opens the camera (capture_emotion and test_capture of
\* src/app.py, capture_emotion of src/Other) has released the handle it opened
\* by the time it returns, on every exit path.
C9_CameraReleasedOnReturn ==
  \A r \in Reqs :
    (req[r].handler \in CaptureHandlers \cup {TestCapture} /\ Returned(r))
      => req[r].webcam = {}

\* C10 as stated, its first half: a capture-emotion request beside which only
\* diagnostic requests run has the outcome of a run without them; alone, on a
\* working camera, it never fails to open the device.
C10_DiagnosticsChangeNoOutcome ==
  \A r \in Reqs :
    (/\ IsCaptureEmotion(r) /\ camWorking
     /\ \A o \in Reqs \ {r} : req[o].handler \in Diagnostics \cup {""})
      => req[r].openResult # "failed"

\* C10, amended: a step of a /camera-check or /test-capture request creates,
\* modifies and deletes no temp file and changes nothing of any other request;
\* all it shares with the pipeline is camera device 0, which it holds while it
\* probes.
C10_DiagnosticsTouchNoFile ==
  [][\A r \in Reqs :
       (req'[r].handler \in Diagnostics /\ req'[r] # req[r])
         => /\ fs' = fs
            /\ now' = now
            /\ \A o \in Reqs \ {r} : req'[o] = req[o]]_vars

C10_Witness ==
  \E d \in Reqs : \E c \in Reqs :
    /\ req[d].handler \in Diagnostics /\ req[d].pc = "done"
    /\ req[d].resp.status = 200
    /\ IsCaptureEmotion(c) /\ req[c].pc \in {"analyze", "finally", "remove"}
    /\ Exists(fs, req[c].image_path)

====
